---- MODULE Spec2Model ----
(***************************************************************************)
(* Model of html_parser.py of sevsu_sheets_parser: the functions that      *)
(* split the schedule links of one institute block into semester 1 and     *)
(* semester 2, and main(), which applies them to every block of the page.  *)
(*                                                                         *)
(* A text is a sequence of characters; a character is a one-character      *)
(* string, except NBSP, which stands for the no-break space '\xa0'.  The   *)
(* keyword 'семестр' is written in Latin letters, "semestr".               *)
(***************************************************************************)
EXTENDS Integers, Sequences, FiniteSets, TLC

VARIABLES
    tag,        \* the institute block (bs4 Tag) handed to the functions
    links,      \* outcome of get_files_url(tag)
    first,      \* outcome of get_schedule_from_first_semester(tag)
    second,     \* outcome of get_schedule_from_second_semester(tag)
    html,       \* main: the server's answer, [status_code, text]
    pc,         \* main: position in main()
    base,       \* main: value of get_base_block(URL, HEADERS)
    done,       \* main: number of loop iterations completed
    produced,   \* main: <<name, a>> of every completed iteration
    dirs,       \* main: directories made by system.make_directory
    saved       \* main: calls of system.save_file, in order

libvars == <<tag, links, first, second>>
mainvars == <<html, pc, base, done, produced, dirs, saved>>
vars == <<tag, links, first, second, html, pc, base, done, produced, dirs, saved>>

----------------------------------------------------------------------------
(* Bounds of the model                                                     *)

MaxPars == 4        \* paragraphs in a block
MaxLinks == 3       \* anchors in a block's link container
MaxFragments == 3   \* institute blocks on the page given to main()

----------------------------------------------------------------------------
(* Generic helpers                                                         *)

SeqsUpTo(S, n) == UNION {[1..m -> S] : m \in 0..n}

Min(a, b) == IF a < b THEN a ELSE b

Max(a, b) == IF a > b THEN a ELSE b

\* Python's  s[:k]  for an integer k (a negative k counts from the end).
PySliceTo(s, k) ==
    IF k >= 0 THEN SubSeq(s, 1, Min(k, Len(s)))
    ELSE SubSeq(s, 1, Max(Len(s) + k, 0))

\* Python's  s[k:]  for an integer k (a negative k counts from the end).
PySliceFrom(s, k) ==
    IF k >= 0 THEN SubSeq(s, Min(k, Len(s)) + 1, Len(s))
    ELSE SubSeq(s, Max(Len(s) + k, 0) + 1, Len(s))

\* Outcomes of a call.
NotCalled == [state |-> "not_called", value |-> <<>>]

Returned(v) == [state |-> "returned", value |-> v]

\* find(...) gave None and a method was called on it: AttributeError.
Raised == [state |-> "raised", value |-> <<>>]

----------------------------------------------------------------------------
(* Texts                                                                   *)

NBSP == "nbsp"

\* str.lower() on the characters that occur in the model's texts.
LowerChar(c) ==
    CASE c = "S" -> "s" [] c = "E" -> "e" [] c = "M" -> "m" [] c = "T" -> "t"
      [] c = "R" -> "r" [] c = "X" -> "x" [] c = "L" -> "l" [] c = "D" -> "d"
      [] c = "F" -> "f" [] c = "P" -> "p"
      [] OTHER -> c

Lower(text) == [i \in 1..Len(text) |-> LowerChar(text[i])]

\* text.replace('\xa0', ' ')
ReplaceNbsp(text) == [i \in 1..Len(text) |-> IF text[i] = NBSP THEN " " ELSE text[i]]

\* Python's  pat in text
Contains(text, pat) ==
    \E i \in 1..(Len(text) - Len(pat) + 1) : SubSeq(text, i, i + Len(pat) - 1) = pat

KEYWORD == <<"s", "e", "m", "e", "s", "t", "r">>

\* Paragraph texts of a block: a semester heading as the page writes it
\* (capitals, a no-break space) and a paragraph that is no heading.
SemesterHeading == <<"2", NBSP, "S", "e", "m", "e", "s", "t", "r">>

OtherParagraph == <<"s", "e", "m", ".">>

ParTexts == {SemesterHeading, OtherParagraph}

\* href values of the anchors of a block.
HrefA == <<"/", "a", ".", "x", "l", "s">>

HrefB == <<"/", "b", ".", "X", "L", "S", "X">>

HrefC == <<"/", "c", ".", "x", "l", "s", "x">>

HrefPdf == <<"/", "d", ".", "x", "l", "s", ".", "p", "d", "f">>

HrefNoExt == <<"/", "x", "l", "s">>

Hrefs == {HrefA, HrefB, HrefC, HrefPdf, HrefNoExt}

\* The hrefs of the blocks whose links are split by semester.
SplitHrefs == {HrefA, HrefB, HrefC, HrefPdf}

\* An institute block: heading (the institute's number stands for its name),
\* paragraphs, and the link container with its anchors (no anchors when the
\* container is absent).
BlocksOf(pars, hrefs) ==
    { [h3 |-> 1, paragraphs |-> p, clearfix |-> TRUE, anchors |-> a] :
        p \in pars, a \in SeqsUpTo(hrefs, MaxLinks) }
    \cup
    { [h3 |-> 1, paragraphs |-> p, clearfix |-> FALSE, anchors |-> <<>>] : p \in pars }

\* The blocks handed to the two semester functions.
Fragments == BlocksOf(SeqsUpTo(ParTexts, MaxPars), SplitHrefs)

\* The blocks handed to get_files_url, which reads no paragraph.
LinkFragments == BlocksOf({<<>>, <<SemesterHeading, OtherParagraph>>}, Hrefs)

----------------------------------------------------------------------------
(* The functions of html_parser.py                                         *)

\* Python's None, as the value of an extension.
None == <<"None">>

\* utils.get_extension(link): the lower-cased text after the last '.', None
\* when the link has no '.'.
get_extension(link) ==
    LET dots == {i \in 1..Len(link) : link[i] = "."} IN
    IF dots = {} THEN None
    ELSE LET d == CHOOSE i \in dots : \A j \in dots : j <= i IN
         Lower(SubSeq(link, d + 1, Len(link)))

XLS == <<"x", "l", "s">>

XLSX == <<"x", "l", "s", "x">>

get_institute_name(soup) == soup.h3

get_files_url_only_xls(soup) ==
    IF ~soup.clearfix THEN Raised
    ELSE Returned(SelectSeq(soup.anchors, LAMBDA link : get_extension(link) = XLS))

get_files_url(soup) ==
    IF ~soup.clearfix THEN Raised
    ELSE Returned(SelectSeq(soup.anchors,
                     LAMBDA link : get_extension(link) = XLS \/ get_extension(link) = XLSX))

\* The 0-based positions of the paragraphs that contain the keyword.
get_semester_index(soup) ==
    LET indexes == [i \in 1..Len(soup.paragraphs) |->
                       Lower(ReplaceNbsp(soup.paragraphs[i]))]
        range == [i \in 1..Len(indexes) |-> i - 1]
    IN  SelectSeq(range, LAMBDA index : Contains(indexes[index + 1], KEYWORD))

\* get_files_url(soup)[:k]  on the outcome r of the call: the error propagates.
SliceTo(r, k) == IF r.state = "raised" THEN Raised ELSE Returned(PySliceTo(r.value, k))

\* get_files_url(soup)[k:]  on the outcome r of the call: the error propagates.
SliceFrom(r, k) == IF r.state = "raised" THEN Raised ELSE Returned(PySliceFrom(r.value, k))

\* As get_schedule_from_first_semester, with  len(indexes) >= 2.
first_semester_at_least_two(soup) ==
    LET indexes == get_semester_index(soup) IN
    IF Len(indexes) >= 2
    THEN SliceTo(get_files_url(soup), indexes[Len(indexes)] - indexes[1] - 1)
    ELSE Returned(<<>>)

\* As get_schedule_from_first_semester, with get_files_url evaluated before
\* the markers are counted.
first_semester_eager(soup) ==
    LET indexes == get_semester_index(soup)
        all == get_files_url(soup)
    IN  IF all.state = "raised" THEN Raised
        ELSE IF Len(indexes) = 2
        THEN Returned(PySliceTo(all.value, indexes[Len(indexes)] - indexes[1] - 1))
        ELSE Returned(<<>>)

get_schedule_from_first_semester(soup) ==
    LET indexes == get_semester_index(soup) IN
    IF Len(indexes) = 2
    THEN SliceTo(get_files_url(soup), indexes[Len(indexes)] - indexes[1] - 1)
    ELSE Returned(<<>>)

\* As get_schedule_from_second_semester, with  [indexes[0]:]  for one marker.
second_semester_from_marker(soup) ==
    LET indexes == get_semester_index(soup) IN
    IF Len(indexes) = 2
    THEN SliceFrom(get_files_url(soup), indexes[Len(indexes)] - 1)
    ELSE IF Len(indexes) = 1
    THEN SliceFrom(get_files_url(soup), indexes[1])
    ELSE Returned(<<>>)

\* As get_schedule_from_second_semester, with every link returned when the
\* block has no marker.
second_semester_all_without_marker(soup) ==
    LET indexes == get_semester_index(soup) IN
    IF Len(indexes) = 2
    THEN SliceFrom(get_files_url(soup), indexes[Len(indexes)] - 1)
    ELSE IF Len(indexes) = 1
    THEN SliceFrom(get_files_url(soup), indexes[1] + 1)
    ELSE get_files_url(soup)

\* As get_schedule_from_second_semester, with  [indexes[0]:]  for two markers.
second_semester_from_first_marker(soup) ==
    LET indexes == get_semester_index(soup) IN
    IF Len(indexes) = 2
    THEN SliceFrom(get_files_url(soup), indexes[1])
    ELSE IF Len(indexes) = 1
    THEN SliceFrom(get_files_url(soup), indexes[1] + 1)
    ELSE Returned(<<>>)

get_schedule_from_second_semester(soup) ==
    LET indexes == get_semester_index(soup) IN
    IF Len(indexes) = 2
    THEN SliceFrom(get_files_url(soup), indexes[Len(indexes)] - 1)
    ELSE IF Len(indexes) = 1
    THEN SliceFrom(get_files_url(soup), indexes[1] + 1)
    ELSE Returned(<<>>)

\* As check_response, with every answer but a server error accepted.
check_response_not_500(response) == response # 500

check_response(response) == response = 200

----------------------------------------------------------------------------
(* The functions called on one institute block                             *)

NoBase == [is_none |-> TRUE, tags |-> <<>>]

MainIdle ==
    /\ html = [status_code |-> 200, text |-> [column |-> TRUE, spoilers |-> <<>>]]
    /\ pc = "idle"
    /\ base = NoBase
    /\ done = 0
    /\ produced = <<>>
    /\ dirs = {}
    /\ saved = <<>>

Init ==
    /\ tag \in Fragments
    /\ links = NotCalled
    /\ first = NotCalled
    /\ second = NotCalled
    /\ MainIdle

CallFilesUrl ==
    /\ links = NotCalled
    /\ links' = get_files_url(tag)
    /\ UNCHANGED <<tag, first, second>>
    /\ UNCHANGED mainvars

CallFirstSemester ==
    /\ first = NotCalled
    /\ first' = get_schedule_from_first_semester(tag)
    /\ UNCHANGED <<tag, links, second>>
    /\ UNCHANGED mainvars

CallSecondSemester ==
    /\ second = NotCalled
    /\ second' = get_schedule_from_second_semester(tag)
    /\ UNCHANGED <<tag, links, first>>
    /\ UNCHANGED mainvars

Next == CallFirstSemester \/ CallSecondSemester

Spec == Init /\ [][Next]_vars

\* get_files_url called on one block.
InitLinks ==
    /\ tag \in LinkFragments
    /\ links = NotCalled
    /\ first = NotCalled
    /\ second = NotCalled
    /\ MainIdle

NextLinks == CallFilesUrl

SpecLinks == InitLinks /\ [][NextLinks]_vars

----------------------------------------------------------------------------
(* main()                                                                  *)

BASE_URL ==
    <<"h", "t", "t", "p", "s", ":", "/", "/", "w", "w", "w", ".",
      "s", "e", "v", "s", "u", ".", "r", "u">>

StatusCodes == {200, 404, 500}

\* The institute blocks a page given to main() is made of: no, one or two
\* semester headings, with or without the link container.
PageBlocks ==
    { [paragraphs |-> p, clearfix |-> TRUE, anchors |-> <<HrefA, HrefB>>] :
        p \in { <<>>, <<SemesterHeading>>,
                <<SemesterHeading, OtherParagraph, SemesterHeading>> } }
    \cup
    { [paragraphs |-> p, clearfix |-> FALSE, anchors |-> <<>>] :
        p \in { <<>>, <<SemesterHeading>>,
                <<SemesterHeading, OtherParagraph, SemesterHeading>> } }

\* The pages: the column of institutes may be missing; block j is headed by
\* institute j.
Pages ==
    { [column |-> c,
       spoilers |-> [j \in 1..Len(bs) |->
                        [h3 |-> j, paragraphs |-> bs[j].paragraphs,
                         clearfix |-> bs[j].clearfix, anchors |-> bs[j].anchors]]] :
        c \in BOOLEAN, bs \in SeqsUpTo(PageBlocks, MaxFragments) }

\* get_base_block on the answer html: None, the blocks, or AttributeError
\* when the page has no "su-column-content".
get_base_block(response) ==
    IF ~check_response(response.status_code) THEN Returned(NoBase)
    ELSE IF ~response.text.column THEN Raised
    ELSE Returned([is_none |-> FALSE, tags |-> response.text.spoilers])

InitMain ==
    /\ tag = [h3 |-> 1, paragraphs |-> <<>>, clearfix |-> TRUE, anchors |-> <<>>]
    /\ links = NotCalled
    /\ first = NotCalled
    /\ second = NotCalled
    /\ html \in [status_code : StatusCodes, text : Pages]
    /\ pc = "start"
    /\ base = NoBase
    /\ done = 0
    /\ produced = <<>>
    /\ dirs = {}
    /\ saved = <<>>

\* Lines 168-171: fetch, give up on None, make the directory.
MainStart ==
    /\ pc = "start"
    /\ LET r == get_base_block(html) IN
         IF r.state = "raised"
         THEN /\ pc' = "raised"
              /\ UNCHANGED <<base, dirs>>
         ELSE IF r.value.is_none
         THEN /\ pc' = "returned"
              /\ base' = r.value
              /\ UNCHANGED dirs
         ELSE /\ pc' = "loop"
              /\ base' = r.value
              /\ dirs' = dirs \cup {"General"}
    /\ UNCHANGED <<html, done, produced, saved>>
    /\ UNCHANGED libvars

\* The save_file calls of lines 179-182 for the list a of institute name.
SaveCalls(name, a) ==
    [index \in 1..Len(a) |->
        [institute |-> name, index |-> index - 1, item |-> a[index],
         extension |-> get_extension(a[index])]]

\* Lines 172-182: one iteration of the loop, on the next block; the current
\* semester is whatever utils.get_current_semester() answers.
MainIteration ==
    /\ pc = "loop"
    /\ done < Len(base.tags)
    /\ \E semester \in {1, 2} :
         LET t == base.tags[done + 1]
             name == get_institute_name(t)
             r == IF semester = 1 THEN get_schedule_from_first_semester(t)
                  ELSE get_schedule_from_second_semester(t)
             a == [i \in 1..Len(r.value) |-> BASE_URL \o r.value[i]]
         IN  IF r.state = "raised"
             THEN /\ pc' = "raised"
                  /\ UNCHANGED <<done, produced, saved>>
             ELSE /\ pc' = "loop"
                  /\ done' = done + 1
                  /\ produced' = Append(produced, [name |-> name, a |-> a])
                  /\ saved' = saved \o SaveCalls(name, a)
    /\ UNCHANGED <<html, base, dirs>>
    /\ UNCHANGED libvars

\* The loop is exhausted: main returns.
MainReturn ==
    /\ pc = "loop"
    /\ done = Len(base.tags)
    /\ pc' = "returned"
    /\ UNCHANGED <<html, base, done, produced, dirs, saved>>
    /\ UNCHANGED libvars

NextMain == MainStart \/ MainIteration \/ MainReturn

SpecMain == InitMain /\ [][NextMain]_vars

----------------------------------------------------------------------------
(* Properties of the semester split (specification Spec) and of the link   *)
(* filter (specification SpecLinks)                                        *)

Markers == get_semester_index(tag)

FirstMarker == Markers[1]

LastMarker == Markers[Len(Markers)]

\* The link sequence of the block, when it has a link container.
L == IF tag.clearfix THEN get_files_url(tag).value ELSE <<>>

Take(s, n) == [i \in 1..Min(n, Len(s)) |-> s[i]]

Drop(s, n) == [i \in 1..Max(Len(s) - n, 0) |-> s[i + n]]

Range(s) == {s[i] : i \in 1..Len(s)}

Distinct(s) == \A i, j \in 1..Len(s) : i # j => s[i] # s[j]

Count(x, s) == Cardinality({i \in 1..Len(s) : s[i] = x})

RECURSIVE IsSubsequence(_, _)
IsSubsequence(s, t) ==
    IF s = <<>> THEN TRUE
    ELSE IF t = <<>> THEN FALSE
    ELSE IF Head(s) = Head(t) THEN IsSubsequence(Tail(s), Tail(t))
    ELSE IsSubsequence(s, Tail(t))

BothReturned == first.state = "returned" /\ second.state = "returned"

\* C1: with exactly two markers at f < l, semester 1 is L[:l-f-1] and
\* semester 2 is L[l-f-1:], for every f.
C1_TwoMarkersSplitAtGap ==
    (BothReturned /\ Len(Markers) = 2) =>
        /\ first.value = Take(L, LastMarker - FirstMarker - 1)
        /\ second.value = Drop(L, LastMarker - FirstMarker - 1)

\* C2: with exactly two markers at f < l and l-f-1 <= len(L), semester 1
\* followed by semester 2 is L: no link dropped, none duplicated.
C2_TwoMarkersCoverAllLinks ==
    (BothReturned /\ Len(Markers) = 2 /\ LastMarker - FirstMarker - 1 <= Len(L)) =>
        first.value \o second.value = L

\* C3 as stated: with more than two markers the two-marker rule is applied
\* to the first and the last marker.
C3_ManyMarkersUseFirstAndLast ==
    (BothReturned /\ Len(Markers) > 2) =>
        /\ first.value = Take(L, LastMarker - FirstMarker - 1)
        /\ second.value = Drop(L, LastMarker - FirstMarker - 1)

\* C3 as amended: with more than two markers both functions return the
\* empty list.
C3_ManyMarkersGiveNothing ==
    Len(Markers) > 2 =>
        /\ first.state # "not_called" => first = Returned(<<>>)
        /\ second.state # "not_called" => second = Returned(<<>>)

C3_Witness ==
    /\ Len(Markers) > 2
    /\ LastMarker - FirstMarker - 1 < Len(L)
    /\ LastMarker - FirstMarker - 1 > 0
    /\ BothReturned

\* C4: with exactly one marker at m, semester 1 is empty and semester 2 is
\* L[m+1:].
C4_OneMarkerSplit ==
    (Len(Markers) = 1 /\ tag.clearfix) =>
        /\ first.state # "not_called" => first = Returned(<<>>)
        /\ second.state # "not_called" => second = Returned(Drop(L, FirstMarker + 1))

C4_Witness ==
    /\ Markers = <<0>>
    /\ Len(L) = 2
    /\ first = Returned(<<>>)
    /\ second = Returned(<<L[2]>>)

\* C5: with no marker both functions return the empty list, whatever the
\* links of the block.
C5_NoMarkerGivesNothing ==
    Len(Markers) = 0 =>
        /\ first.state # "not_called" => first = Returned(<<>>)
        /\ second.state # "not_called" => second = Returned(<<>>)

C5_Witness ==
    /\ Len(Markers) = 0
    /\ Len(tag.paragraphs) > 0
    /\ Len(L) > 1
    /\ BothReturned

\* C6: for distinct links, semester 1 and semester 2 share no link, and
\* semester 1 followed by semester 2 is a subsequence of L.
C6_DisjointSubsequence ==
    (BothReturned /\ Distinct(L)) =>
        /\ Range(first.value) \cap Range(second.value) = {}
        /\ IsSubsequence(first.value \o second.value, L)

C6_Witness ==
    /\ BothReturned
    /\ Distinct(L)
    /\ Len(L) = 3
    /\ first.value # <<>>
    /\ second.value # <<>>

Matches(link) == get_extension(link) = XLS \/ get_extension(link) = XLSX

\* C9: for a block with a link container, get_files_url returns exactly the
\* links whose extension is xls or xlsx, in document order.
C9_FilterByExtension ==
    (links.state # "not_called" /\ tag.clearfix) =>
        /\ links.state = "returned"
        /\ IsSubsequence(links.value, tag.anchors)
        /\ \A h \in Hrefs :
              Count(h, links.value) = IF Matches(h) THEN Count(h, tag.anchors) ELSE 0

C9_Witness ==
    /\ links.state = "returned"
    /\ tag.anchors = <<HrefNoExt, HrefB, HrefA>>
    /\ links.value = <<HrefB, HrefA>>

\* C10: with the link container absent, semester 1 raises exactly when there
\* are two markers and semester 2 exactly when there are one or two; in
\* every other case the result is the empty list.
C10_ErrorOnlyWhenSliced ==
    ~tag.clearfix =>
        /\ first.state # "not_called" =>
              IF Len(Markers) = 2 THEN first = Raised ELSE first = Returned(<<>>)
        /\ second.state # "not_called" =>
              IF Len(Markers) \in {1, 2} THEN second = Raised ELSE second = Returned(<<>>)

C10_Witness ==
    /\ ~tag.clearfix
    /\ Len(Markers) = 1
    /\ first = Returned(<<>>)
    /\ second = Raised

----------------------------------------------------------------------------
(* Properties of main() (specification SpecMain)                           *)

Terminated == pc \in {"returned", "raised"}

\* C7: when link extraction fails for one block, the run goes on: every
\* block that has its link container, those after the failing one included,
\* is processed and its result produced.
C7_FailureDoesNotAbort ==
    (Terminated /\ check_response(html.status_code) /\ html.text.column) =>
        \A j \in 1..Len(html.text.spoilers) :
            html.text.spoilers[j].clearfix =>
                \E k \in 1..Len(produced) : produced[k].name = j

\* C8: after any status code but 200 nothing is processed: no block, no
\* directory, no split, no file.
C8_NoProcessingWithoutOk ==
    html.status_code # 200 =>
        /\ pc \in {"start", "returned"}
        /\ base = NoBase
        /\ dirs = {}
        /\ done = 0
        /\ produced = <<>>
        /\ saved = <<>>

C8_Witness ==
    /\ html.status_code = 404
    /\ html.text.column
    /\ Len(html.text.spoilers) > 1
    /\ pc = "returned"

====
